---- MODULE Spec2Model ----
(***************************************************************************)
(* Model of class ModelBootstrap (ModelBootstrap-checkpoint.ipynb, first   *)
(* code cell): a calibrated point model plus n_boot calibrated models      *)
(* fitted on bootstrap resamples, aggregated by predict into a point       *)
(* estimate and a quantile interval.                                       *)
(*                                                                         *)
(* Conventions.                                                            *)
(*  - A Python value whose type the code inspects is a record              *)
(*    [type, v]: PyInt(3), PyFloat(95) (the float 95.0), None.             *)
(*  - A probability is an integer number of percent (0..100).  The values  *)
(*    predict returns are exact rationals with denominator 100 * QDen:     *)
(*    the model carries the numerator over QDen, i.e. percent * QDen.      *)
(*    numpy computes the same quantities in binary floating point; the     *)
(*    model follows the exact arithmetic of the formulas.                  *)
(*  - The underlying classifier and its calibration are external: a        *)
(*    fitted CalibratedClassifierCV is any map from feature rows to        *)
(*    probabilities, chosen nondeterministically at fit time.  The model   *)
(*    keeps one feature vector and the probabilities 0 and 1, so that      *)
(*    every ensemble of up to MaxBoot members is enumerated.               *)
(*  - The three `raise Warning(...)` sites are named after the error they  *)
(*    report: line 32 InvalidConfiguration, line 92 NotFitted, lines 95    *)
(*    and 97 InvalidArgument.                                              *)
(***************************************************************************)
EXTENDS Integers, Sequences, FiniteSets, TLC

\* ---------------------------------------------------------------- bounds
MaxBoot == 3      \* largest n_boot passed to the constructor
MaxRows == 2      \* largest number of rows of a training dataset
MaxS    == 2      \* largest number of rows passed to predict
MaxFits == 2      \* number of fit calls followed in one behaviour

\* denominator of the quantile level: ci = (1 - ci / 100) / 2 = (100 - ci) / 200
QDen == 200

\* ---------------------------------------------------------- Python values
PyInt(n)   == [type |-> "int", v |-> n]
PyFloat(n) == [type |-> "float", v |-> n]
None       == [type |-> "NoneType", v |-> 0]
\* an attribute that has not been assigned (or an object that does not exist)
Unset      == [type |-> "unset", v |-> 0]

\* ------------------------------------------------------------ input sets
FeatureRows == {"xa"}                \* feature vectors
Probs       == {0, 100}              \* predict_proba(X)[:,1], in percent
\* classifier templates (the estimator argument of the constructor)
Templates   == {[type |-> "estimator", v |-> "LogisticRegression"]}
CalibCVs    == {None}                \* calibration_cv, forwarded untouched

\* n_boot arguments: valid counts, a negative one, a float
NBootArgs == {PyInt(n) : n \in -1..MaxBoot} \cup {PyFloat(1)}
\* boot_size arguments: None or an int (zero and negative included)
BootSizeArgs == {None} \cup {PyInt(n) : n \in -1..MaxRows}
\* ci arguments: the boundary values, some valid levels, a float
CIArgs == {PyInt(n) : n \in {0, 1, 95, 99, 100}} \cup {PyFloat(95)}
\* the valid confidence levels
CILevels == 1..99

\* training datasets: R >= 1 rows, the labels alternating
Dataset(R) == [X |-> [k \in 1..R |-> "xa"], y |-> [k \in 1..R |-> k % 2]]
Datasets == {Dataset(R) : R \in 1..MaxRows}
\* predict inputs: S >= 1 feature rows
PredictXs == UNION {[1..S -> FeatureRows] : S \in 1..MaxS}

\* what a fitted calibrated model computes: feature row -> probability
ProbaMaps == [FeatureRows -> Probs]

VARIABLES
  estimator,             \* self.estimator (the classifier template)
  n_boot,                \* self.n_boot
  b_estimators,          \* self.b_estimators
  calibrated_estimator,  \* self.calibrated_estimator
  calibration_cv,        \* self.calibration_cv
  boot_size,             \* self.boot_size
  result,                \* the last call: its arguments and its outcome
  fit_calls,             \* number of fit calls made on the estimator
  last_choice,           \* the last np.random.choice call of the last fit
  trainings              \* the trainings the last fit call completed, in order

vars == <<estimator, n_boot, b_estimators, calibrated_estimator,
          calibration_cv, boot_size, result, fit_calls, last_choice,
          trainings>>

\* the estimator object exists once __init__ has returned normally
Exists == n_boot # Unset

\* a call op(a, b) that raised e / that returned o (the arguments of fit
\* are not recorded)
NoResult == [op |-> "none", a |-> None, b |-> None, err |-> "none", out |-> <<>>]
Raise(op, a, b, e) == [op |-> op, a |-> a, b |-> b, err |-> e, out |-> <<>>]
Return(op, a, b, o) == [op |-> op, a |-> a, b |-> b, err |-> "none", out |-> o]

NoChoice == [called |-> FALSE, size |-> 0, raised |-> FALSE]

Init ==
  /\ estimator = Unset
  /\ n_boot = Unset
  /\ b_estimators = <<>>
  /\ calibrated_estimator = Unset
  /\ calibration_cv = Unset
  /\ boot_size = Unset
  /\ result = NoResult
  /\ fit_calls = 0
  /\ last_choice = NoChoice
  /\ trainings = <<>>

\* ------------------------------------------------------- __init__ (20-35)
\* variant: zero rejected too, as the message of line 32 words it
BadNBoot_ZeroRejected(n) == n.type # "int" \/ n.v <= 0

\* line 31: type(n_boot) != int or n_boot < 0  (the condition that raises)
BadNBoot(n) == n.type # "int" \/ n.v < 0

\* __init__(estimator, n_boot): raises before any attribute but
\* self.estimator is set, and then no object is returned to the caller.
Construct(est, n) ==
  /\ ~Exists
  /\ IF BadNBoot(n)
       THEN /\ result' = Raise("init", est, n, "InvalidConfiguration")
            /\ UNCHANGED <<estimator, n_boot, b_estimators>>
       ELSE /\ estimator' = est
            /\ n_boot' = n
            /\ b_estimators' = <<>>
            /\ result' = Return("init", est, n, <<>>)
  /\ UNCHANGED <<calibrated_estimator, calibration_cv, boot_size,
                 fit_calls, last_choice, trainings>>

\* variant: the template itself is trained, not a clone of it
KeepsConfig_TrainsTemplate ==
  /\ estimator' = [estimator EXCEPT !.v = "trained"]
  /\ n_boot' = n_boot

\* neither fit nor predict assigns self.estimator or self.n_boot, and
\* CalibratedClassifierCV trains clones of the template it is given
KeepsConfig == UNCHANGED <<estimator, n_boot>>

\* ------------------------------------------------------------ fit (37-75)
\* CalibratedClassifierCV(base_estimator = ..., cv = ...) followed by
\* .fit(X, y): object number j of fit call g (0 is the main estimator),
\* computing the probability map m.
FittedModel(g, j, base, cv, m) ==
  [gen |-> g, j |-> j, base |-> base, cv |-> cv, fitted |-> TRUE, proba |-> m]

\* line 58 / 73 before .fit has succeeded: the object exists, it has not
\* been trained (predict_proba on it raises sklearn's NotFittedError)
UnfittedModel(g, j, base, cv) ==
  [gen |-> g, j |-> j, base |-> base, cv |-> cv, fitted |-> FALSE]

\* lines 62-64: self.boot_size = boot_size; None means X.shape[0]
BootSize(bs, R) == IF bs = None THEN PyInt(R) ELSE bs

\* np.random.choice(a, size = size): the possible index arrays (0-based
\* indices below a); a negative size raises ValueError.
ChoiceRaises(a, size) == size < 0
Choice(a, size) == [1..size -> 0..(a - 1)]

\* variant: the rows taken in the order of the input, not as drawn
Gather_InputOrder(arr, b_idx) ==
  [k \in 1..Len(b_idx) |-> arr[((k - 1) % Len(arr)) + 1]]

\* X[b_idx], y[b_idx]: gather rows in the order drawn (arrays are 1-based
\* sequences here, indices 0-based as in the code)
Gather(arr, b_idx) == [k \in 1..Len(b_idx) |-> arr[b_idx[k] + 1]]

\* fitting on a resample with no rows raises ValueError in the classifier
TrainRaises(Xr) == Len(Xr) = 0

\* one completed .fit call of a calibrated model (lines 59 and 74): the
\* object trained, (gen, j) with j = 0 the main estimator, the rows it was
\* trained on and, for a resample, the np.random.choice call of that fit
\* which drew it
Training(g, j) ==
  [gen |-> g, j |-> j, rows |-> IF j = 0 THEN "X" ELSE "X_resampled",
   draw |-> j]

\* variant: one resample drawn before the loop and used by every iteration
TrainLog_OneDraw(g, n) ==
  [k \in 1..(n + 1) |->
     IF k = 1 THEN Training(g, 0) ELSE [Training(g, k - 1) EXCEPT !.draw = 1]]

\* lines 59 and 68-75: the trainings of fit call g completed once n
\* iterations of the loop have run
TrainLog(g, n) == [k \in 1..(n + 1) |-> Training(g, k - 1)]

\* variant: line 66 missing, the new members pile up behind the old ones
FitLoopOk_Accumulates(size, maps) ==
  /\ b_estimators' =
       b_estimators \o
       [j \in 1..n_boot.v |->
          FittedModel(fit_calls + 1, j, estimator, calibration_cv', maps[j])]
  /\ last_choice' = [called |-> TRUE, size |-> size, raised |-> FALSE]
  /\ trainings' = TrainLog(fit_calls + 1, n_boot.v)
  /\ result' = Return("fit", None, None, <<>>)

\* lines 68-75, every iteration succeeding: n_boot new calibrated models,
\* appended in iteration order
FitLoopOk(size, maps) ==
  /\ b_estimators' =
       [j \in 1..n_boot.v |->
          FittedModel(fit_calls + 1, j, estimator, calibration_cv', maps[j])]
  /\ last_choice' = [called |-> TRUE, size |-> size, raised |-> FALSE]
  /\ trainings' = TrainLog(fit_calls + 1, n_boot.v)
  /\ result' = Return("fit", None, None, <<>>)

\* lines 68-75 when the first iteration raises ValueError: in
\* np.random.choice (negative size) or in partial_estimator.fit (a resample
\* without rows); line 66 has emptied self.b_estimators by then
FitLoopRaises(R, size) ==
  /\ b_estimators' = <<>>
  /\ last_choice' = [called |-> TRUE, size |-> size,
                     raised |-> ChoiceRaises(R, size)]
  /\ trainings' = TrainLog(fit_calls + 1, 0)
  /\ result' = Raise("fit", None, None, "ValueError")

\* The index arrays drawn influence the state only through the models
\* trained on the resamples; those are chosen freely (maps), so the arrays
\* themselves are not enumerated here.
Fit(data, cv, bs) ==
  LET R    == Len(data.X)
      size == BootSize(bs, R).v
  IN
  /\ Exists
  /\ fit_calls < MaxFits
  /\ fit_calls' = fit_calls + 1
  /\ calibration_cv' = cv
  /\ \E m0 \in ProbaMaps :
       calibrated_estimator' = FittedModel(fit_calls + 1, 0, estimator, cv, m0)
  /\ boot_size' = BootSize(bs, R)
  /\ IF n_boot.v = 0
       THEN /\ b_estimators' = <<>>
            /\ last_choice' = NoChoice
            /\ trainings' = TrainLog(fit_calls + 1, 0)
            /\ result' = Return("fit", None, None, <<>>)
       ELSE IF \/ ChoiceRaises(R, size)
               \/ \E idx \in Choice(R, size) : TrainRaises(Gather(data.X, idx))
         THEN FitLoopRaises(R, size)
         ELSE \E maps \in [1..n_boot.v -> ProbaMaps] : FitLoopOk(size, maps)
  /\ KeepsConfig

\* fit when a training raises inside the classifier (lines 59 and 74 call
\* code outside this class, e.g. a resample holding one class only): k = 0
\* is the main estimator's training, k >= 1 that of member k. Nothing in
\* fit catches the exception, so the assignments made before it stay.
FitAborts(data, cv, bs, k) ==
  LET R    == Len(data.X)
      size == BootSize(bs, R).v
  IN
  /\ Exists
  /\ fit_calls < MaxFits
  /\ k \in 0..n_boot.v
  /\ fit_calls' = fit_calls + 1
  /\ calibration_cv' = cv
  /\ IF k = 0
       THEN /\ calibrated_estimator' =
                 UnfittedModel(fit_calls + 1, 0, estimator, cv)
            /\ trainings' = <<>>
            /\ UNCHANGED <<boot_size, b_estimators, last_choice>>
       ELSE /\ ~ChoiceRaises(R, size)
            /\ size > 0
            /\ \E m0 \in ProbaMaps :
                 calibrated_estimator' =
                   FittedModel(fit_calls + 1, 0, estimator, cv, m0)
            /\ boot_size' = BootSize(bs, R)
            /\ \E maps \in [1..(k - 1) -> ProbaMaps] :
                 b_estimators' =
                   [j \in 1..(k - 1) |->
                      FittedModel(fit_calls + 1, j, estimator, cv, maps[j])]
            /\ last_choice' = [called |-> TRUE, size |-> size, raised |-> FALSE]
            /\ trainings' = TrainLog(fit_calls + 1, k - 1)
  /\ result' = Raise("fit", None, None, "TrainingError")
  /\ KeepsConfig

\* ------------------------------------------------------- predict (77-110)
\* variant: the fitted check missing
NotFitted_Missing(b) == FALSE

\* line 91: `not self.b_estimators` (an empty list is falsy)
NotFitted(b) == Len(b) = 0

\* variant: the interval taken as closed
BadCI_Closed(ci) == ci.type # "int" \/ ci.v < 0 \/ ci.v > 100

\* lines 94-97: the conditions that raise
BadCI(ci) == ci.type # "int" \/ ci.v <= 0 \/ ci.v >= 100

\* variant: ci = (ci / 100) / 2, the complement forgotten
Alpha_NoComplement(ci) == ci

\* line 98: ci = (1 - ci / 100) / 2 = (100 - ci) / QDen, as the numerator
\* over QDen
Alpha(ci) == 100 - ci

\* model.predict_proba(X)[:,1]
PredictProba(model, X) == [i \in 1..Len(X) |-> model.proba[X[i]]]

\* lines 100, 103-105: an n_boot x S matrix of zeros whose row j is
\* overwritten by the probabilities of member j
Preds(b, n, X) ==
  [j \in 1..n |->
     IF j <= Len(b) THEN PredictProba(b[j], X) ELSE [i \in 1..Len(X) |-> 0]]

\* column i of the matrix
Column(preds, i) == [j \in 1..Len(preds) |-> preds[j][i]]

\* the values of a sequence in non-decreasing order
RECURSIVE Insert(_, _)
Insert(s, x) ==
  IF s = <<>> THEN <<x>>
  ELSE IF x <= Head(s) THEN <<x>> \o s
  ELSE <<Head(s)>> \o Insert(Tail(s), x)

\* variant: the order statistics read from the unsorted column
Unsorted(s) == s

RECURSIVE Sorted(_)
Sorted(s) == IF s = <<>> THEN <<>> ELSE Insert(Sorted(Tail(s)), Head(s))

\* variant: the order statistic below the virtual index, not interpolated
Quantile_Lower(col, q) ==
  LET n  == Len(col)
      v  == Sorted(col)
      lo == (q * (n - 1)) \div QDen
  IN QDen * v[lo + 1]

\* np.quantile(col, q / QDen), method "linear": with the values sorted and
\* the virtual index h = q / QDen * (n - 1), the result is
\* v[floor(h)] + (h - floor(h)) * (v[floor(h) + 1] - v[floor(h)]).
\* The value returned here is that result times QDen.
Quantile(col, q) ==
  LET n  == Len(col)
      v  == Sorted(col)
      h  == q * (n - 1)
      lo == h \div QDen
      g  == h % QDen
      hi == IF lo + 1 > n - 1 THEN n - 1 ELSE lo + 1
  IN QDen * v[lo + 1] + g * (v[hi + 1] - v[lo + 1])

\* variant: the quantile taken along the rows (axis = 1)
QuantileAxis1(preds, q, S) ==
  [j \in 1..Len(preds) |-> Quantile(preds[j], q)]

\* lines 107-108: np.quantile(preds, q, axis = 0)
QuantileAxis0(preds, q, S) == [i \in 1..S |-> Quantile(Column(preds, i), q)]

\* lines 98-110 as a function of what they read: the members b, n_boot n
\* and the main estimator
PredictOutWith(b, n, main, X, ci) ==
  LET a     == Alpha(ci)
      preds == Preds(b, n, X)
      y     == PredictProba(main, X)
  IN [y_pred       |-> [i \in 1..Len(X) |-> QDen * y[i]],
      lower_bounds |-> QuantileAxis0(preds, a, Len(X)),
      upper_bounds |-> QuantileAxis0(preds, QDen - a, Len(X))]

\* lines 98-110: what predict returns once its checks have passed
PredictOut(X, ci) ==
  PredictOutWith(b_estimators, n_boot.v, calibrated_estimator, X, ci)

\* line 101 reads self.calibrated_estimator, which only fit assigns
NoMainEstimator == calibrated_estimator = Unset

\* lines 91-110: how the call predict(X, ci) ends in the current state
PredictResult(X, ci) ==
  IF NotFitted(b_estimators) THEN Raise("predict", X, ci, "NotFitted")
  ELSE IF BadCI(ci) THEN Raise("predict", X, ci, "InvalidArgument")
  ELSE IF NoMainEstimator THEN Raise("predict", X, ci, "AttributeError")
  ELSE IF ~calibrated_estimator.fitted
    THEN Raise("predict", X, ci, "NotFittedError")
  ELSE Return("predict", X, ci, PredictOut(X, ci.v))

\* variant: predict uses the members up
PredictKeeps_DropsMembers ==
  /\ b_estimators' = <<>>
  /\ UNCHANGED <<calibrated_estimator, calibration_cv, boot_size, fit_calls,
                 last_choice, trainings>>

\* lines 77-110 assign no attribute of self
PredictKeeps ==
  UNCHANGED <<b_estimators, calibrated_estimator, calibration_cv, boot_size,
              fit_calls, last_choice, trainings>>

Predict(X, ci) ==
  /\ Exists
  /\ result' = PredictResult(X, ci)
  /\ KeepsConfig
  /\ PredictKeeps

\* ------------------------------------------------------------------ Spec
Next ==
  \/ \E est \in Templates, n \in NBootArgs : Construct(est, n)
  \/ \E data \in Datasets, cv \in CalibCVs, bs \in BootSizeArgs : Fit(data, cv, bs)
  \/ \E X \in PredictXs, ci \in CIArgs : Predict(X, ci)

Spec == Init /\ [][Next]_vars

\* ------------------------------------------ the quantile step of predict
\* Lines 98 and 107-108 taken alone, on the probabilities n members give to
\* one sample, with values that differ pairwise.
QProbs == {0, 30, 100}
QLevels == {1, 50, 90, 95, 99}
QColumns == UNION {[1..n -> QProbs] : n \in 1..MaxBoot}

QuantileStep(col, ci) ==
  LET preds == [j \in 1..Len(col) |-> <<col[j]>>]
      a     == Alpha(ci)
  IN
  /\ result' = Return("quantile", col, PyInt(ci),
                      [lower_bounds |-> QuantileAxis0(preds, a, 1),
                       upper_bounds |-> QuantileAxis0(preds, QDen - a, 1)])
  /\ UNCHANGED <<estimator, n_boot, b_estimators, calibrated_estimator,
                 calibration_cv, boot_size, fit_calls, last_choice,
                 trainings>>

NextQuantile == \E col \in QColumns, ci \in QLevels : QuantileStep(col, ci)

SpecQuantile == Init /\ [][NextQuantile]_vars

\* -------------------------------------------- fit with failing trainings
NextFail ==
  \/ Next
  \/ \E data \in Datasets, cv \in CalibCVs, bs \in BootSizeArgs,
        k \in 0..MaxBoot : FitAborts(data, cv, bs, k)

SpecFail == Init /\ [][NextFail]_vars

\* ------------------------------------------- the resampling step of fit
\* Lines 62-64 and 69-71 taken alone: the three assignments one iteration
\* of the bootstrap loop makes before it trains, on datasets whose rows can
\* be told apart.
LabelledRows == {[x |-> "xa", y |-> 0], [x |-> "xa", y |-> 1],
                 [x |-> "xb", y |-> 1]}
ResampleData ==
  UNION {{[X |-> [k \in 1..R |-> rows[k].x], y |-> [k \in 1..R |-> rows[k].y]] :
            rows \in [1..R -> LabelledRows]} : R \in 1..MaxRows}

ResampleStep(data, bs) ==
  LET R    == Len(data.X)
      size == BootSize(bs, R).v
  IN
  /\ boot_size' = BootSize(bs, R)
  /\ IF ChoiceRaises(R, size)
       THEN /\ last_choice' = [called |-> TRUE, size |-> size, raised |-> TRUE]
            /\ result' = Raise("resample", data, bs, "ValueError")
       ELSE \E b_idx \in Choice(R, size) :
              /\ last_choice' = [called |-> TRUE, size |-> size, raised |-> FALSE]
              /\ result' = Return("resample", data, bs,
                                  [b_idx       |-> b_idx,
                                   X_resampled |-> Gather(data.X, b_idx),
                                   y_resampled |-> Gather(data.y, b_idx)])
  /\ UNCHANGED <<estimator, n_boot, b_estimators, calibrated_estimator,
                 calibration_cv, fit_calls, trainings>>

NextResample ==
  \E data \in ResampleData, bs \in BootSizeArgs : ResampleStep(data, bs)

SpecResample == Init /\ [][NextResample]_vars

\* the last call was op, and it raised e / returned
Raised(op, e) == result.op = op /\ result.err = e
Returned(op) == result.op = op /\ result.err = "none"

\* ================================================================ claims

\* ---------------------------------------------------------------- C1
\* C1: on an estimator on which fit has never been called, predict fails
\* with NotFitted and returns no arrays, whatever X and ci are passed.
C1_PredictBeforeFit ==
  (result.op = "predict" /\ fit_calls = 0)
    => (result.err = "NotFitted" /\ result.out = <<>>)

C1_Witness ==
  /\ fit_calls = 0
  /\ Raised("predict", "NotFitted")
  /\ result.b = PyInt(95)

\* ---------------------------------------------------------------- C2
\* C2: an estimator constructed with n_boot = 0 and fitted successfully
\* predicts without NotFitted or any other error (an invalid ci aside).
C2_ZeroBootPredicts ==
  (/\ result.op = "predict"
   /\ n_boot = PyInt(0)
   /\ fit_calls > 0
   /\ result.b.type = "int" /\ result.b.v \in CILevels)
    => result.err = "none"

C7_CIValidated ==
  /\ (~NotFitted(b_estimators) /\ result.op = "predict")
       => /\ (result.err = "InvalidArgument")
               <=> ~(result.b.type = "int" /\ 0 < result.b.v /\ result.b.v < 100)
          /\ (result.b.type = "int" /\ result.b.v \in CILevels)
               => /\ result.err = "none"
                  /\ DOMAIN result.out = {"y_pred", "lower_bounds", "upper_bounds"}
  /\ Returned("fit")
       => /\ \A c \in -5..105 : BadCI(PyInt(c)) <=> c \notin CILevels
          /\ \A c \in -5..105 : BadCI(PyFloat(c))

C7_Witness ==
  /\ ~NotFitted(b_estimators)
  /\ Raised("predict", "InvalidArgument")
  /\ result.b = PyInt(100)

\* ---------------------------------------------------------------- C8
\* C8: fit rejects a boot_size <= 0 itself, so np.random.choice is never
\* called with a zero or negative size.
C8_NoNonPositiveResample == last_choice.called => last_choice.size > 0

\* ---------------------------------------------------------------- C3
\* C3: every triple predict returns has lower[i] <= point[i] <= upper[i].
C3_PointWithinBounds ==
  Returned("predict")
    => \A i \in 1..Len(result.a) :
         /\ result.out.lower_bounds[i] <= result.out.y_pred[i]
         /\ result.out.y_pred[i] <= result.out.upper_bounds[i]

\* ---------------------------------------------------------------- C4
\* C4: after a successful fit the estimator is Fitted (predict's check
\* passes) and holds the point model and exactly n_boot members.
C4_FitMakesFitted ==
  Returned("fit")
    => /\ ~NotFitted(b_estimators)
       /\ Len(b_estimators) = n_boot.v
       /\ calibrated_estimator # Unset /\ calibrated_estimator.fitted

\* ---------------------------------------------------------------- C5
\* C5: a successful fit leaves exactly n_boot members, all created by that
\* fit call together with its point model (none kept from earlier fits);
\* predict changes neither; and no step other than a failing fit takes a
\* fitted estimator back to unfitted.
FromFit(m, g, j) == m # Unset /\ m.fitted /\ m.gen = g /\ m.j = j

C5_RefitReplaces ==
  [][ /\ (result'.op = "fit" /\ result'.err = "none")
           => /\ fit_calls' = fit_calls + 1
              /\ Len(b_estimators') = n_boot'.v
              /\ \A j \in 1..Len(b_estimators') :
                   FromFit(b_estimators'[j], fit_calls', j)
              /\ FromFit(calibrated_estimator', fit_calls', 0)
      /\ (result'.op = "predict")
           => UNCHANGED <<b_estimators, calibrated_estimator, fit_calls>>
      /\ (~NotFitted(b_estimators) /\ ~(result'.op = "fit" /\ result'.err # "none"))
           => ~NotFitted(b_estimators') ]_vars

C5_Witness ==
  /\ fit_calls = 2
  /\ Returned("predict")
  /\ n_boot.v = 2 /\ Len(b_estimators) = 2
  /\ \A j \in 1..2 : FromFit(b_estimators[j], 2, j)

\* ---------------------------------------------------------------- C9
\* C9: on a fitted estimator (so n_boot >= 1), for every ci in 1..99 and
\* every sample, lower <= upper; the tail mass alpha lies strictly between
\* 0 and 1/2, so the lower quantile level is below the upper one.
\* predict changes nothing of the estimator, so every fitted ensemble is
\* met in the state its fit call returns in: all X and all levels are
\* checked there, and the triple of each predict call where it is returned.
LowerBelowUpper(o) ==
  \A i \in DOMAIN o.lower_bounds : o.lower_bounds[i] <= o.upper_bounds[i]

TailMassOk(c) ==
  /\ 0 < Alpha(c) /\ 2 * Alpha(c) < QDen
  /\ Alpha(c) < QDen - Alpha(c)

C9_LowerBelowUpper ==
  /\ ~NotFitted(b_estimators) => n_boot.v >= 1
  /\ (~NotFitted(b_estimators) /\ Returned("fit"))
       => \A c \in CILevels :
            /\ TailMassOk(c)
            /\ \A X \in PredictXs : LowerBelowUpper(PredictOut(X, c))
  /\ Returned("predict") => (TailMassOk(result.b.v) /\ LowerBelowUpper(result.out))

C9_Witness ==
  /\ Returned("predict")
  /\ n_boot.v >= 2
  /\ \E i \in 1..Len(result.a) :
       result.out.lower_bounds[i] < result.out.upper_bounds[i]

\* ---------------------------------------------------------------- C10
\* C10: for a fixed fitted ensemble and fixed X, the width upper - lower of
\* every sample is non-decreasing in the confidence level.
Widths(X, c) ==
  LET o == PredictOut(X, c)
  IN [i \in 1..Len(X) |-> o.upper_bounds[i] - o.lower_bounds[i]]

\* w1 is no wider than w2 in any sample
NoWider(w1, w2) == \A i \in DOMAIN w1 : w1[i] <= w2[i]

\* levels compared pairwise; every level is also compared with the next one
SomeLevels == {1, 50, 80, 95, 99}

C10_WidthMonotone ==
  /\ (~NotFitted(b_estimators) /\ Returned("fit"))
       => \A X \in PredictXs :
            /\ \A c \in CILevels \ {99} :
                 NoWider(Widths(X, c), Widths(X, c + 1))
            /\ \A c1 \in SomeLevels, c2 \in SomeLevels :
                 c1 <= c2 => NoWider(Widths(X, c1), Widths(X, c2))
  /\ Returned("predict")
       => \A c \in {1, 99} :
            LET w == [i \in 1..Len(result.a) |->
                        result.out.upper_bounds[i] - result.out.lower_bounds[i]]
            IN IF c <= result.b.v THEN NoWider(Widths(result.a, c), w)
                                  ELSE NoWider(w, Widths(result.a, c))

C10_Witness ==
  /\ Returned("predict")
  /\ result.b = PyInt(99)
  /\ \E i \in 1..Len(result.a) :
       Widths(result.a, 1)[i] < result.out.upper_bounds[i] - result.out.lower_bounds[i]

\* ---------------------------------------------------------------- C11
\* C11: a resample drawn from R > 0 rows has exactly boot_size rows (R rows
\* when boot_size is None), every drawn index lies in 0..R-1, and row k of
\* the resample is the input (features, label) pair at the k-th drawn
\* index; an index may be drawn more than once.
C11_ResampleGathers ==
  Returned("resample")
    => LET R    == Len(result.a.X)
           size == IF result.b = None THEN R ELSE result.b.v
           o    == result.out
       IN /\ R > 0
          /\ Len(o.b_idx) = size
          /\ Len(o.X_resampled) = size /\ Len(o.y_resampled) = size
          /\ \A k \in 1..size :
               /\ o.b_idx[k] \in 0..(R - 1)
               /\ o.X_resampled[k] = result.a.X[o.b_idx[k] + 1]
               /\ o.y_resampled[k] = result.a.y[o.b_idx[k] + 1]

\* both rows of the resample are the second input row
C11_Witness ==
  /\ Returned("resample")
  /\ result.a = [X |-> <<"xa", "xb">>, y |-> <<0, 1>>]
  /\ result.b = None
  /\ result.out.b_idx = <<1, 1>>
  /\ result.out.X_resampled = <<"xb", "xb">>

\* ---------------------------------------------------------------- C12
Perms(n) ==
  {p \in [1..n -> 1..n] : \A i, j \in 1..n : p[i] = p[j] => i = j}

Permuted(b, p) == [j \in 1..Len(b) |-> b[p[j]]]

\* C12: with the point model, the features and the confidence level fixed,
\* the three arrays predict returned are the ones it returns for every
\* permutation of the bootstrap members.
C12_MemberOrderIrrelevant ==
  Returned("predict")
    => \A p \in Perms(Len(b_estimators)) :
         PredictOutWith(Permuted(b_estimators, p), n_boot.v,
                        calibrated_estimator, result.a, result.b.v)
           = result.out

\* predict returned bounds interpolated between members that disagree
C12_Witness ==
  /\ Returned("predict")
  /\ Len(b_estimators) = 3
  /\ b_estimators[1].proba # b_estimators[2].proba
  /\ b_estimators[2].proba = b_estimators[3].proba
  /\ \E i \in 1..Len(result.a) :
       result.out.lower_bounds[i] \notin {0, 100 * QDen}

\* ---------------------------------------------------------------- C14
UnitInterval == 0..(100 * QDen)

\* C14: when predict returns for S input rows, the point, lower and upper
\* vectors each have exactly S entries and every entry lies in [0, 1]
\* (the probabilities of every model lie in [0, 1]).
C14_ShapeAndRange ==
  Returned("predict")
    => LET S == Len(result.a)
           o == result.out
       IN /\ Len(o.y_pred) = S
          /\ Len(o.lower_bounds) = S
          /\ Len(o.upper_bounds) = S
          /\ \A i \in 1..S :
               /\ o.y_pred[i] \in UnitInterval
               /\ o.lower_bounds[i] \in UnitInterval
               /\ o.upper_bounds[i] \in UnitInterval

\* two input rows, three members, a bound strictly inside the interval
C14_Witness ==
  /\ Returned("predict")
  /\ Len(result.a) = 2
  /\ n_boot = PyInt(3)
  /\ Len(result.out.y_pred) = 2
  /\ result.out.lower_bounds[2] > 0
  /\ result.out.lower_bounds[2] < 100 * QDen

\* ---------------------------------------------------------------- C15
\* C15: in every reachable state, trainings failing or not, when predict's
\* fitted check passes the ensemble holds exactly n_boot members and a
\* fitted point model, all produced by one fit call, so no row of the
\* matrix whose quantiles are taken is left unfilled.
C15_FittedMeansWhole ==
  (Exists /\ ~NotFitted(b_estimators))
    => /\ Len(b_estimators) = n_boot.v
       /\ calibrated_estimator # Unset
       /\ calibrated_estimator.fitted
       /\ \A j \in 1..Len(b_estimators) :
            FromFit(b_estimators[j], calibrated_estimator.gen, j)

\* ---------------------------------------------------------------- C16
\* C16: a successful fit has completed exactly n_boot + 1 trainings: first
\* the point model on the full dataset, then, in iteration order, one per
\* bootstrap iteration, each on the resample drawn in that iteration and
\* each of a new member, which is trained once and sits at the position of
\* its iteration in the member list.
C16_TrainingsOfFit ==
  Returned("fit")
    => LET n == n_boot.v
       IN /\ Len(trainings) = n + 1
          /\ trainings[1].rows = "X"
          /\ FromFit(calibrated_estimator, trainings[1].gen, trainings[1].j)
          /\ Len(b_estimators) = n
          /\ \A k \in 1..n :
               /\ trainings[k + 1].rows = "X_resampled"
               /\ trainings[k + 1].draw = k
               /\ FromFit(b_estimators[k], trainings[k + 1].gen,
                          trainings[k + 1].j)
          /\ \A k, l \in 1..(n + 1) :
               (trainings[k].j = trainings[l].j) => k = l

\* the second fit of an estimator with three members has succeeded
C16_Witness ==
  /\ Returned("fit")
  /\ fit_calls = 2
  /\ n_boot = PyInt(3)
  /\ Len(trainings) = 4
  /\ trainings[4] = Training(2, 3)

\* ---------------------------------------------------------------- C17
\* the k-th smallest value of col (k from 0), by counting
OrderStat(col, k) ==
  CHOOSE x \in {col[j] : j \in 1..Len(col)} :
    /\ Cardinality({j \in 1..Len(col) : col[j] < x}) <= k
    /\ k < Cardinality({j \in 1..Len(col) : col[j] <= x})

\* QDen times the reference value at level num / QDen: with fractional rank
\* h = num / QDen * (n - 1), v[floor(h)] + (h - floor(h)) * (v[ceil(h)] -
\* v[floor(h)])
LinearRef(col, num) ==
  LET hn == num * (Len(col) - 1)
      fl == hn \div QDen
      ce == IF hn % QDen = 0 THEN fl ELSE fl + 1
  IN QDen * OrderStat(col, fl)
       + (hn - QDen * fl) * (OrderStat(col, ce) - OrderStat(col, fl))

\* C17: the lower and the upper bound of a sample are the alpha- and the
\* (1 - alpha)-quantile, alpha = (1 - ci/100)/2, of the sample's member
\* probabilities by linear interpolation between order statistics.
C17_LinearInterpolation ==
  Returned("quantile")
    => /\ result.out.lower_bounds = <<LinearRef(result.a, 100 - result.b.v)>>
       /\ result.out.upper_bounds = <<LinearRef(result.a, 100 + result.b.v)>>

\* both bounds fall between two different order statistics
C17_Witness ==
  /\ Returned("quantile")
  /\ result.a = <<100, 0, 30>>
  /\ result.b = PyInt(95)
  /\ result.out = [lower_bounds |-> <<300>>, upper_bounds |-> <<19300>>]

\* ---------------------------------------------------------------- C18
\* C18: once the estimator is constructed no step changes its classifier
\* template or its n_boot: they stay the values given to __init__.
C18_ConfigNeverChanges ==
  [][Exists => (estimator' = estimator /\ n_boot' = n_boot)]_vars

\* two fits and a predict later
C18_Witness ==
  /\ Returned("predict")
  /\ fit_calls = 2
  /\ estimator \in Templates
  /\ n_boot = PyInt(2)

\* ---------------------------------------------------------------- C19
\* C19: a predict step, returning or raising, leaves the point model, the
\* members, boot_size and the calibration setting as they were, and the
\* same call made again in the state it leaves ends the same way.
C19_PredictReadOnly ==
  /\ [][result'.op = "predict"
          => /\ UNCHANGED <<calibrated_estimator, b_estimators, boot_size,
                            calibration_cv>>
             /\ NotFitted(b_estimators') = NotFitted(b_estimators)]_vars
  /\ [](result.op = "predict" => PredictResult(result.a, result.b) = result)

\* predict returned on an estimator fitted once with boot_size 1
C19_Witness ==
  /\ Returned("predict")
  /\ result.b = PyInt(99)
  /\ Len(result.a) = 1
  /\ Len(b_estimators) = 2
  /\ fit_calls = 1
  /\ boot_size = PyInt(1)

====
